---------------------------- MODULE Spec2Model ----------------------------
(***************************************************************************)
(* Model of the geometric reconciliation and inference functions of        *)
(* duui-pdf: process_segmentation (pdf_segmentation.py), calculate_bbox,   *)
(* get_table_block_nums, get_figure_block_nums (bbox.py), find_block_num   *)
(* (pdf_processor.py) and get_index (utils.py).                            *)
(*                                                                         *)
(* Every function is synchronous and works on in-memory tables, so each is *)
(* one action: the arguments are drawn in the initial state, the action    *)
(* applies the function, and the locals and the returned value are the     *)
(* state after it.  A DataFrame is a sequence of rows (records), in row    *)
(* order.                                                                  *)
(***************************************************************************)
EXTENDS Integers, Sequences, FiniteSets, TLC

VARIABLES
    pc,                \* "call" before the function runs, then "returned" or "raised"
    ocr_data,          \* the OCR word records, in emission order
    segments,          \* main.py: the sparse rows handed to process_segmentation
    segmentation_df,   \* process_segmentation: the local table, as returned
    existing_entries,  \* process_segmentation: the running key set
    new_headlines,     \* process_segmentation: rows collected by the Headline pass
    new_authors,       \* process_segmentation: rows collected by the Author pass
    new_sections,      \* process_segmentation: rows collected by the Section pass
    target_bbox,       \* get_table_block_nums, get_figure_block_nums: the target
    page_num,          \* get_table_block_nums, get_figure_block_nums: 0-based page
    block_nums,        \* get_table_block_nums, get_figure_block_nums: the result
    chars,             \* find_block_num: the text to look for
    found,             \* find_block_num: the returned (block_num, page_num)
    sections,          \* get_index: the outline, a list of lists
    req_block,         \* calculate_bbox: the block argument
    req_page,          \* calculate_bbox: the page argument
    bbox,              \* calculate_bbox: the result; the pixel box to extract
    pdf_page,          \* the PDF page's width and height in points
    crop,              \* extract_text_from_bbox: the box handed to within_bbox
    pixels,            \* convert_bbox_to_pixels: the returned box
    processed_data,    \* annotate_pdf: the segmentation rows
    pdf_text,          \* annotate_pdf: the full text of the PDF
    extracted,         \* annotate_pdf: the text extracted for each row
    annotations        \* annotate_pdf: the annotations added to the view

segVars == <<segments, segmentation_df, existing_entries, new_headlines,
             new_authors, new_sections>>
boxVars == <<target_bbox, page_num, block_nums>>

findVars == <<chars, found>>

mapVars == <<req_block, req_page, bbox, pdf_page, crop, pixels>>

annVars == <<processed_data, pdf_text, extracted, annotations>>

vars == <<pc, ocr_data, segVars, boxVars, findVars, sections,
                 mapVars, annVars>>

\* the variables of a function that is not the one being called
SegIdle ==
    /\ segments = <<>>
    /\ segmentation_df = <<>>
    /\ existing_entries = {}
    /\ new_headlines = <<>>
    /\ new_authors = <<>>
    /\ new_sections = <<>>

BoxIdle ==
    /\ target_bbox = <<>>
    /\ page_num = 0
    /\ block_nums = {}

FindIdle ==
    /\ chars = <<>>
    /\ found = <<>>

IndexIdle == sections = <<>>

MapIdle ==
    /\ req_block = 0
    /\ req_page = 0
    /\ bbox = <<>>
    /\ pdf_page = <<>>
    /\ crop = <<>>
    /\ pixels = <<>>

AnnIdle ==
    /\ processed_data = <<>>
    /\ pdf_text = <<>>
    /\ extracted = <<>>
    /\ annotations = <<>>

-----------------------------------------------------------------------------
(* Bounds of the model. *)

\* block_num ranges over 0..MaxBlock
MaxBlock == 3
\* rows of the sparse table plus OCR word records in one call
MaxInput == 4
\* OCR word records handed to the block look-ups
MaxRecords == 3
\* characters of the text find_block_num looks for
MaxChars == 3
\* entries of an outline, its deepest level, and the places where an entry's
\* level differs from the level of the entry before it
MaxOutline == 12
MaxLevel == 3
MaxChanges == 3
\* the pixel boxes of the scaling lie on a grid of this many steps
MaxGrid == 3
\* annotate_pdf: at most this many rows, and a PDF text of at most MaxText
MaxSegments == 2
MaxText == 3

Blocks == 0..MaxBlock
Pages == {1, 2}
Tops == {0, 1}

-----------------------------------------------------------------------------
(* Values pandas and Python produce for "nothing". *)

\* Series.min() / Series.max() of an empty selection
NaN == -1
\* title_block_num = None
None == -2

\* a < b on numbers either of which may be NaN: every comparison with NaN is False
Lt(a, b) == a # NaN /\ b # NaN /\ a < b

MinOf(S) == IF S = {} THEN NaN ELSE CHOOSE x \in S : \A y \in S : x <= y
MaxOf(S) == IF S = {} THEN NaN ELSE CHOOSE x \in S : \A y \in S : x >= y

Range(s) == {s[i] : i \in 1..Len(s)}

SeqsUpTo(S, n) == UNION {[1..k -> S] : k \in 0..n}

-----------------------------------------------------------------------------
(* bbox.calculate_bbox *)

calculate_bbox(df, block, page) ==
    LET block_data == {i \in 1..Len(df) :
                          df[i].block_num = block /\ df[i].page_num = page}
    IN  [x0     |-> MinOf({df[i].left : i \in block_data}),
         top    |-> MinOf({df[i].top : i \in block_data}),
         x1     |-> MaxOf({df[i].left + df[i].width : i \in block_data}),
         bottom |-> MaxOf({df[i].top + df[i].height : i \in block_data})]

-----------------------------------------------------------------------------
(* pdf_segmentation.process_segmentation *)

Key(r) == <<r.block_num, r.page_num>>

\* a row built from {"Type":, "block_num":, "page_num":}: after pd.concat its
\* level, label and index columns are empty
NewRow(type, r) ==
    [Type |-> type, block_num |-> r.block_num, page_num |-> r.page_num,
     level_label_index |-> <<>>]

\* DataFrame.sort_values(by=['page_num', 'block_num']): a stable sort
RowLE(a, b) ==
    \/ a.page_num < b.page_num
    \/ a.page_num = b.page_num /\ a.block_num <= b.block_num

\* InsertSorted letting a row replace nothing and be dropped when its key is
\* already in the table (a sort that also removes duplicate keys)
RECURSIVE InsertSortedUnique(_, _)
InsertSortedUnique(r, s) ==
    IF s = <<>> THEN <<r>>
    ELSE IF Key(Head(s)) = Key(r) THEN s
         ELSE IF RowLE(Head(s), r)
              THEN <<Head(s)>> \o InsertSortedUnique(r, Tail(s))
              ELSE <<r>> \o s

RECURSIVE InsertSorted(_, _)
InsertSorted(r, s) ==
    IF s = <<>> THEN <<r>>
    ELSE IF RowLE(Head(s), r) THEN <<Head(s)>> \o InsertSorted(r, Tail(s))
         ELSE <<r>> \o s

RECURSIVE SortValues(_)
SortValues(s) ==
    IF s = <<>> THEN <<>>
    ELSE InsertSorted(s[Len(s)], SortValues(SubSeq(s, 1, Len(s) - 1)))

\* Collect without the look-up in existing_entries
RECURSIVE CollectUnchecked(_, _, _, _)
CollectUnchecked(cands, existing, acc, type) ==
    IF cands = <<>> THEN [rows |-> acc, existing |-> existing]
    ELSE CollectUnchecked(Tail(cands), existing \cup {Key(Head(cands))},
                          Append(acc, NewRow(type, Head(cands))), type)

\* the loop body shared by the three passes: a candidate whose key is not in
\* existing_entries is appended and its key is added to the set
RECURSIVE Collect(_, _, _, _)
Collect(cands, existing, acc, type) ==
    IF cands = <<>> THEN [rows |-> acc, existing |-> existing]
    ELSE LET r == Head(cands)
         IN  IF Key(r) \notin existing
             THEN Collect(Tail(cands), existing \cup {Key(r)},
                          Append(acc, NewRow(type, r)), type)
             ELSE Collect(Tail(cands), existing, acc, type)

\* Series.unique(): the values in order of first appearance
RECURSIVE Unique(_)
Unique(s) ==
    IF s = <<>> THEN <<>>
    ELSE LET u == Unique(SubSeq(s, 1, Len(s) - 1))
         IN  IF s[Len(s)] \in Range(u) THEN u ELSE Append(u, s[Len(s)])

\* DataFrame.drop_duplicates(subset=['block_num', 'page_num']): first rows kept
RECURSIVE DropDuplicates(_)
DropDuplicates(s) ==
    IF s = <<>> THEN <<>>
    ELSE LET d == DropDuplicates(SubSeq(s, 1, Len(s) - 1))
         IN  IF Key(s[Len(s)]) \in {Key(d[i]) : i \in 1..Len(d)}
             THEN d ELSE Append(d, s[Len(s)])

RECURSIVE Flatten(_)
Flatten(ss) == IF ss = <<>> THEN <<>> ELSE Head(ss) \o Flatten(Tail(ss))

\* HeadlineCandidates looking only at the title's own page
HeadlineCandidatesTitlePage(df, ocr) ==
    LET titles == SelectSeq(df, LAMBDA row : row.Type = "Title")
        above(t) ==
            LET title_top == calculate_bbox(ocr, t.block_num, t.page_num).top
            IN  SelectSeq(ocr, LAMBDA r : r.page_num = t.page_num
                                          /\ Lt(r.top, title_top))
    IN  Flatten([i \in 1..Len(titles) |-> above(titles[i])])

\* the word records the Headline loops visit, in visiting order: for every
\* Title row, for every page, the records of the page above the title's top
HeadlineCandidates(df, ocr) ==
    LET titles == SelectSeq(df, LAMBDA row : row.Type = "Title")
        pages  == Unique([i \in 1..Len(ocr) |-> ocr[i].page_num])
        above(t, p) ==
            LET title_top == calculate_bbox(ocr, t.block_num, t.page_num).top
            IN  SelectSeq(ocr, LAMBDA r : r.page_num = p /\ Lt(r.top, title_top))
    IN  Flatten([i \in 1..Len(titles) |->
                    Flatten([j \in 1..Len(pages) |-> above(titles[i], pages[j])])])

HeadlinePass(df, ocr, existing) ==
    Collect(HeadlineCandidates(df, ocr), existing, <<>>, "Headline")

\* title_block_num: the first Title row's block, or None
TitleBlockNum(df) ==
    LET title_row == SelectSeq(df, LAMBDA row : row.Type = "Title")
    IN  IF title_row # <<>> THEN title_row[1].block_num ELSE None

\* next_block_num: the least block_num of the page-1 rows other than the title's
NextBlockNum(df, title_block_num) ==
    MinOf({df[i].block_num : i \in {j \in 1..Len(df) :
              df[j].page_num = 1 /\ df[j].block_num # title_block_num}})

\* the Author loop; None < block_num raises TypeError
RECURSIVE AuthorLoop(_, _, _, _, _)
AuthorLoop(rows, existing, acc, title_block_num, next_block_num) ==
    IF rows = <<>> THEN [raised |-> FALSE, rows |-> acc, existing |-> existing]
    ELSE LET r == Head(rows)
         IN  IF Key(r) \notin existing /\ r.page_num = 1
             THEN IF title_block_num = None
                  THEN [raised |-> TRUE, rows |-> acc, existing |-> existing]
                  ELSE IF title_block_num < r.block_num
                          /\ Lt(r.block_num, next_block_num)
                       THEN AuthorLoop(Tail(rows), existing \cup {Key(r)},
                                       Append(acc, NewRow("Author", r)),
                                       title_block_num, next_block_num)
                       ELSE AuthorLoop(Tail(rows), existing, acc,
                                       title_block_num, next_block_num)
             ELSE AuthorLoop(Tail(rows), existing, acc,
                             title_block_num, next_block_num)

AuthorPass(df, ocr, existing) ==
    LET title_block_num == TitleBlockNum(df)
        next_block_num  == IF title_block_num # None
                           THEN NextBlockNum(df, title_block_num) ELSE NaN
    IN  AuthorLoop(DropDuplicates(ocr), existing, <<>>,
                   title_block_num, next_block_num)

\* the Section loops: for every pair of consecutive Section rows, the OCR keys
\* whose block_num lies strictly between the pair's block_nums
RECURSIVE SectionLoop(_, _, _, _, _)
SectionLoop(section_rows, i, ocr, existing, acc) ==
    IF i > Len(section_rows) - 1 THEN [rows |-> acc, existing |-> existing]
    ELSE LET current_block_num == section_rows[i].block_num
             next_block_num    == section_rows[i + 1].block_num
             between == SelectSeq(DropDuplicates(ocr), LAMBDA r :
                           current_block_num < r.block_num
                           /\ r.block_num < next_block_num)
             c == Collect(between, existing, acc, "Section")
         IN  SectionLoop(section_rows, i + 1, ocr, c.existing, c.rows)

\* SectionPass pairing the Section rows after sorting them by page and block
SectionPassSorted(df, ocr, existing) ==
    SectionLoop(SortValues(SelectSeq(df, LAMBDA row : row.Type = "Section")),
                1, ocr, existing, <<>>)

SectionPass(df, ocr, existing) ==
    SectionLoop(SelectSeq(df, LAMBDA row : row.Type = "Section"), 1, ocr,
                existing, <<>>)

process_segmentation ==
    /\ pc = "call"
    /\ LET existing0 == {Key(segments[i]) : i \in 1..Len(segments)}
           h   == HeadlinePass(segments, ocr_data, existing0)
           df1 == segments \o h.rows
           a   == AuthorPass(df1, ocr_data, h.existing)
           s   == SectionPass(df1, ocr_data, a.existing)
       IN  /\ new_headlines' = h.rows
           /\ new_authors' = a.rows
           /\ IF a.raised
              THEN /\ pc' = "raised"
                   /\ segmentation_df' = df1
                   /\ new_sections' = <<>>
                   /\ existing_entries' = a.existing
              ELSE /\ pc' = "returned"
                   /\ segmentation_df' = SortValues(df1 \o a.rows \o s.rows)
                   /\ new_sections' = s.rows
                   /\ existing_entries' = s.existing
    /\ UNCHANGED <<segments, ocr_data, boxVars, findVars, sections,
                 mapVars, annVars>>

-----------------------------------------------------------------------------
(* Inputs of process_segmentation *)

\* rows as main.py builds them: only Section rows carry level, label and index
SegmentRows ==
    {[Type |-> t, block_num |-> b, page_num |-> p,
      level_label_index |-> IF t = "Section" THEN <<0, "Introduction", "1">>
                            ELSE <<>>] :
        t \in {"Title", "Abstract", "Section"}, b \in Blocks, p \in Pages}

\* word records; process_segmentation reads page_num, block_num and top
SegWords ==
    {[page_num |-> p, block_num |-> b, left |-> 0, top |-> t, width |-> 1,
      height |-> 1, text |-> <<"w">>] :
        p \in Pages, b \in Blocks, t \in Tops}

\* process_pdf concatenates the pages in order and Tesseract emits a page's
\* words block by block, so the records are in (page_num, block_num) order
EmissionOrder(ocr) ==
    \A i \in 1..Len(ocr) - 1 :
        \/ ocr[i].page_num < ocr[i + 1].page_num
        \/ ocr[i].page_num = ocr[i + 1].page_num
           /\ ocr[i].block_num <= ocr[i + 1].block_num

InitSeg ==
    /\ pc = "call"
    /\ \E k \in 0..MaxInput - 1 :
          /\ segments \in [1..k -> SegmentRows]
          /\ \E n \in 0..MaxInput - 1 :
                /\ k + n <= MaxInput
                /\ ocr_data \in {o \in [1..n -> SegWords] : EmissionOrder(o)}
    /\ segmentation_df = segments
    /\ existing_entries = {}
    /\ new_headlines = <<>>
    /\ new_authors = <<>>
    /\ new_sections = <<>>
    /\ BoxIdle
    /\ FindIdle
    /\ IndexIdle
    /\ MapIdle
    /\ AnnIdle

NextSeg == process_segmentation

SpecSeg == InitSeg /\ [][NextSeg]_vars

-----------------------------------------------------------------------------
(* Claims about process_segmentation *)

Triple(r) == <<r.Type, r.block_num, r.page_num>>
Occurrences(df, t) == Cardinality({i \in 1..Len(df) : Triple(df[i]) = t})
Keys(df) == {Key(df[i]) : i \in 1..Len(df)}
TypedAs(df, type, k) == \E i \in 1..Len(df) : df[i].Type = type /\ Key(df[i]) = k

\* C1: the returned table holds every row of the sparse input with its Type,
\* block_num and page_num (as often as the input holds it), so no input key
\* is removed and the output has at least as many rows as the input.
C1_InputRowsKept ==
    pc = "returned" =>
        /\ \A i \in 1..Len(segments) :
              Occurrences(segmentation_df, Triple(segments[i]))
                  >= Occurrences(segments, Triple(segments[i]))
        /\ Keys(segments) \subseteq Keys(segmentation_df)
        /\ Len(segmentation_df) >= Len(segments)

\* a return where rows were added, two input rows share a key and the final
\* sort moved an input row
C1_Witness ==
    /\ pc = "returned"
    /\ Len(segmentation_df) > Len(segments)
    /\ Cardinality(Keys(segments)) < Len(segments)
    /\ SubSeq(segmentation_df, 1, Len(segments)) # segments

DistinctKeys(df) == Cardinality(Keys(df)) = Len(df)

KeyLess(a, b) ==
    \/ a.page_num < b.page_num
    \/ a.page_num = b.page_num /\ a.block_num < b.block_num

\* C2: for a sparse input with pairwise distinct keys the returned table is in
\* strictly ascending (page_num, block_num) order: sorted, and no key twice.
C2_StrictlyAscending ==
    (pc = "returned" /\ DistinctKeys(segments)) =>
        \A i \in 1..Len(segmentation_df) - 1 :
            KeyLess(segmentation_df[i], segmentation_df[i + 1])

\* a return for distinct input keys in which a Headline was added for a block
\* that has two word records above the title
C2_Witness ==
    /\ pc = "returned"
    /\ DistinctKeys(segments)
    /\ \E h \in Range(new_headlines) :
          Cardinality({i \in 1..Len(ocr_data) :
              /\ Key(ocr_data[i]) = Key(h)
              /\ \E t \in Range(segments) :
                    /\ t.Type = "Title"
                    /\ Lt(ocr_data[i].top,
                          calculate_bbox(ocr_data, t.block_num, t.page_num).top)})
              >= 2

\* the Title segment (the claim speaks of a table with one Title row)
ClaimTitleRow == (CHOOSE i \in 1..Len(segments) :
                        /\ segments[i].Type = "Title"
                        /\ \A j \in 1..i - 1 : segments[j].Type # "Title")
ClaimHasTitle == Cardinality({i \in 1..Len(segments) : segments[i].Type = "Title"}) = 1
\* the page-1 block_nums above titleBlock among the blocks classified so far
ClaimAfterTitle ==
    {r.block_num : r \in {x \in Range(segments) \cup Range(new_headlines) :
        x.page_num = 1 /\ x.block_num > segments[ClaimTitleRow].block_num}}

\* C3: an OCR block that is neither in the sparse input nor a Headline is
\* typed Author exactly when it is on page 1 and titleBlock < block_num <
\* nextBlock, nextBlock being the least page-1 block_num strictly greater
\* than titleBlock among the sparse rows and the added Headlines.
C3_AuthorBetweenTitleAndNext ==
    (pc = "returned" /\ ClaimHasTitle) =>
        \A r \in Range(ocr_data) :
            Key(r) \notin Keys(segments) \cup Keys(new_headlines) =>
                (TypedAs(segmentation_df, "Author", Key(r))
                 <=> /\ r.page_num = 1
                     /\ ClaimAfterTitle # {}
                     /\ segments[ClaimTitleRow].block_num < r.block_num
                     /\ r.block_num < MinOf(ClaimAfterTitle))

\* the top of a block's bounding box
BlockTop(k) == MinOf({r.top : r \in {x \in Range(ocr_data) : Key(x) = k}})

\* C4: an OCR block, on any page, whose key is not in the sparse input is
\* typed Headline exactly when the top of its bounding box is strictly less
\* than the top of a Title segment's bounding box.
C4_HeadlineAboveTitle ==
    pc = "returned" =>
        \A r \in Range(ocr_data) :
            Key(r) \notin Keys(segments) =>
                (TypedAs(segmentation_df, "Headline", Key(r))
                 <=> \E t \in Range(segments) :
                        /\ t.Type = "Title"
                        /\ BlockTop(Key(t)) # NaN
                        /\ BlockTop(Key(r)) < BlockTop(Key(t)))

\* a return with a Headline on another page than the title's, and an
\* unclassified block level with the title that is no Headline
C4_Witness ==
    /\ pc = "returned"
    /\ \E t \in Range(segments), h \in Range(segmentation_df) :
          /\ t.Type = "Title"
          /\ h.Type = "Headline"
          /\ h.page_num # t.page_num
          /\ \E r \in Range(ocr_data) :
                /\ Key(r) \notin Keys(segments)
                /\ BlockTop(Key(r)) = BlockTop(Key(t))
                /\ ~TypedAs(segmentation_df, "Headline", Key(r))

\* the Section rows of the table in its row order
ClaimSections == SelectSeq(segments, LAMBDA row : row.Type = "Section")

\* C5: an OCR block left over by the sparse input, the Headline pass and the
\* Author pass becomes a Section row exactly when its block_num lies strictly
\* between the block_nums of two Section rows that follow each other in the
\* table's row order, whatever its page; an added row has no level, label or
\* index.
C5_SectionBetweenSections ==
    pc = "returned" =>
        /\ \A r \in Range(ocr_data) :
              Key(r) \notin Keys(segments) \cup Keys(new_headlines)
                                           \cup Keys(new_authors) =>
                  (TypedAs(segmentation_df, "Section", Key(r))
                   <=> \E i \in 1..Len(ClaimSections) - 1 :
                          /\ ClaimSections[i].block_num < r.block_num
                          /\ r.block_num < ClaimSections[i + 1].block_num)
        /\ \A row \in Range(segmentation_df) :
              (row.Type = "Section" /\ Key(row) \notin Keys(segments))
                  => row.level_label_index = <<>>

\* a return with a Section added between two input Sections that are not in
\* page order, on another page than the pair's first Section
C5_Witness ==
    /\ pc = "returned"
    /\ \E i \in 1..Len(ClaimSections) - 1, row \in Range(segmentation_df) :
          /\ ClaimSections[i].page_num > ClaimSections[i + 1].page_num
          /\ row.Type = "Section"
          /\ Key(row) \notin Keys(segments)
          /\ row.page_num # ClaimSections[i].page_num
          /\ ClaimSections[i].block_num < row.block_num
          /\ row.block_num < ClaimSections[i + 1].block_num

\* the sparse table has no Title row
ClaimNoTitle == \A i \in 1..Len(segments) : segments[i].Type # "Title"

\* C16: with no Title row in the sparse table, process_segmentation completes
\* and returns a table for every OCR record set, also one with page-1 blocks
\* that the sparse table does not hold: no Headline and no Author row is
\* added, the Section-range pass has run and the table is sorted.
C16_NoTitleCompletes ==
    (pc # "call" /\ ClaimNoTitle) =>
        /\ pc = "returned"
        /\ new_headlines = <<>>
        /\ new_authors = <<>>
        /\ \A row \in Range(segmentation_df) :
              row.Type \notin {"Headline", "Author"}
        /\ \A r \in Range(ocr_data) :
              (Key(r) \notin Keys(segments)
               /\ \E i \in 1..Len(ClaimSections) - 1 :
                     /\ ClaimSections[i].block_num < r.block_num
                     /\ r.block_num < ClaimSections[i + 1].block_num)
                  => TypedAs(segmentation_df, "Section", Key(r))
        /\ \A i \in 1..Len(segmentation_df) - 1 :
              RowLE(segmentation_df[i], segmentation_df[i + 1])

-----------------------------------------------------------------------------
(* bbox.get_table_block_nums and bbox.get_figure_block_nums *)

\* Python's  token in text  on strings, a string being its characters in order
Contains(text, token) ==
    \E i \in 1..Len(text) - Len(token) + 1 :
        SubSeq(text, i, i + Len(token) - 1) = token

TableToken == <<"T", "a", "b", "l", "e">>
FigureToken == <<"F", "i", "g", "u", "r", "e">>

\* the box of one word record: (left, top, left + width, top + height)
WordBox(row) ==
    [x0 |-> row.left, top |-> row.top,
     x1 |-> row.left + row.width, bottom |-> row.top + row.height]

\* the overlap test with closed intervals
OverlapsClosed(a, b) ==
    a.x0 <= b.x1 /\ a.x1 >= b.x0 /\ a.top <= b.bottom /\ a.bottom >= b.top

\* the overlap test of get_table_block_nums, a the word's box and b the target
Overlaps(a, b) ==
    a.x0 < b.x1 /\ a.x1 > b.x0 /\ a.top < b.bottom /\ a.bottom > b.top

\* ocr_data[ocr_data['page_num'] == page_num + 1]
FilteredData(ocr, page) == SelectSeq(ocr, LAMBDA r : r.page_num = page + 1)

\* the loop of get_table_block_nums without the look at the next row
RECURSIVE TableLoopNoCaption(_, _, _, _)
TableLoopNoCaption(filtered_data, i, target, acc) ==
    IF i > Len(filtered_data) THEN acc
    ELSE IF Overlaps(WordBox(filtered_data[i]), target)
         THEN TableLoopNoCaption(filtered_data, i + 1, target,
                                 acc \cup {filtered_data[i].block_num})
         ELSE TableLoopNoCaption(filtered_data, i + 1, target, acc)

\* the loop of get_table_block_nums over the rows i, i + 1, ... (from 1 here)
RECURSIVE TableLoop(_, _, _, _)
TableLoop(filtered_data, i, target, acc) ==
    IF i > Len(filtered_data) THEN acc
    ELSE LET row == filtered_data[i]
         IN  IF Overlaps(WordBox(row), target)
             THEN LET caption ==
                          IF i + 1 <= Len(filtered_data)
                             /\ Contains(filtered_data[i + 1].text, TableToken)
                          THEN {filtered_data[i + 1].block_num} ELSE {}
                  IN  TableLoop(filtered_data, i + 1, target,
                                acc \cup {row.block_num} \cup caption)
             ELSE TableLoop(filtered_data, i + 1, target, acc)

get_table_block_nums ==
    /\ pc = "call"
    /\ block_nums' = TableLoop(FilteredData(ocr_data, page_num), 1, target_bbox, {})
    /\ pc' = "returned"
    /\ UNCHANGED <<ocr_data, target_bbox, page_num, segVars, findVars, sections,
                 mapVars, annVars>>

\* the loop of get_figure_block_nums going on past a row below the target
\* until one holds "Figure"
RECURSIVE FigureLoopNoBreak(_, _, _)
FigureLoopNoBreak(filtered_data, i, bottom_target) ==
    IF i > Len(filtered_data) THEN {}
    ELSE IF filtered_data[i].top > bottom_target
            /\ Contains(filtered_data[i].text, FigureToken)
         THEN {filtered_data[i].block_num}
         ELSE FigureLoopNoBreak(filtered_data, i + 1, bottom_target)

\* the loop of get_figure_block_nums: it breaks at the first row below the target
RECURSIVE FigureLoop(_, _, _)
FigureLoop(filtered_data, i, bottom_target) ==
    IF i > Len(filtered_data) THEN {}
    ELSE IF filtered_data[i].top > bottom_target
         THEN IF Contains(filtered_data[i].text, FigureToken)
              THEN {filtered_data[i].block_num} ELSE {}
         ELSE FigureLoop(filtered_data, i + 1, bottom_target)

get_figure_block_nums ==
    /\ pc = "call"
    /\ block_nums' = FigureLoop(FilteredData(ocr_data, page_num), 1,
                                target_bbox.bottom)
    /\ pc' = "returned"
    /\ UNCHANGED <<ocr_data, target_bbox, page_num, segVars, findVars, sections,
                 mapVars, annVars>>

\* Inputs: words placed around the target (2, 2, 4, 4): inside it, across its
\* corner, against its right edge, against its bottom edge, below it
WordPlaces ==
    {[left |-> 3, top |-> 3, width |-> 1, height |-> 1],
     [left |-> 1, top |-> 1, width |-> 2, height |-> 2],
     [left |-> 4, top |-> 2, width |-> 2, height |-> 2],
     [left |-> 2, top |-> 4, width |-> 2, height |-> 1],
     [left |-> 2, top |-> 5, width |-> 2, height |-> 1]}

BoxWords(texts) ==
    {[page_num |-> p, block_num |-> b, left |-> w.left, top |-> w.top,
      width |-> w.width, height |-> w.height, text |-> t] :
        p \in Pages, b \in {0, 1}, w \in WordPlaces, t \in texts}

InitBox(texts) ==
    /\ pc = "call"
    /\ \E n \in 0..MaxRecords :
          ocr_data \in {o \in [1..n -> BoxWords(texts)] : EmissionOrder(o)}
    /\ target_bbox = [x0 |-> 2, top |-> 2, x1 |-> 4, bottom |-> 4]
    /\ page_num \in {p - 1 : p \in Pages}
    /\ block_nums = {}
    /\ SegIdle
    /\ FindIdle
    /\ IndexIdle
    /\ MapIdle
    /\ AnnIdle

InitTable ==
    InitBox({<<"T", "a", "b", "l", "e", "s">>, <<"t", "a", "b", "l", "e">>})

SpecTable == InitTable /\ [][get_table_block_nums]_vars

InitFigure ==
    InitBox({<<"(", "F", "i", "g", "u", "r", "e">>, <<"F", "i", "g", ".">>})

SpecFigure == InitFigure /\ [][get_figure_block_nums]_vars

-----------------------------------------------------------------------------
(* Claims about get_table_block_nums and get_figure_block_nums *)

\* the places in ocr_data of the page's word records, native order
PageWords == {i \in 1..Len(ocr_data) : ocr_data[i].page_num = page_num + 1}
\* the page's records that come after place i
LaterWords(i) == {j \in PageWords : j > i}
OverlappingWords ==
    {i \in PageWords : Overlaps(WordBox(ocr_data[i]), target_bbox)}
\* the captions: the record right after an overlapping one, holding "Table"
CaptionWords ==
    {j \in PageWords :
        /\ Contains(ocr_data[j].text, TableToken)
        /\ \E i \in OverlappingWords :
              j \in LaterWords(i) /\ \A k \in LaterWords(i) : j <= k}

\* C6: get_table_block_nums returns exactly the blocks of the page's word
\* records whose box overlaps the target, plus the block of the record that
\* directly follows an overlapping record on the page when its text holds
\* "Table"; with no overlapping record the result is empty, without an error.
C6_TableBlocks ==
    pc = "returned" =>
        /\ block_nums = {ocr_data[i].block_num : i \in OverlappingWords}
                            \cup {ocr_data[j].block_num : j \in CaptionWords}
        /\ OverlappingWords = {} => block_nums = {}

\* a return that holds a block only for its "Table" caption, whose own box
\* does not overlap the target, while another "Table" record of the page,
\* which follows a record that does not overlap, adds nothing
C6_Witness ==
    /\ pc = "returned"
    /\ \E j \in CaptionWords :
          /\ j \notin OverlappingWords
          /\ \A i \in OverlappingWords :
                ocr_data[i].block_num # ocr_data[j].block_num
    /\ \E j \in PageWords \ (CaptionWords \cup OverlappingWords) :
          Contains(ocr_data[j].text, TableToken)

\* the rectangles of a call: the target and the boxes of the word records
CallRectangles == {target_bbox} \cup {WordBox(r) : r \in Range(ocr_data)}
\* no point in common
DisjointRectangles(a, b) ==
    a.x1 < b.x0 \/ b.x1 < a.x0 \/ a.bottom < b.top \/ b.bottom < a.top
\* an edge in common and nothing else
TouchingRectangles(a, b) ==
    \/ /\ a.x1 = b.x0 \/ b.x1 = a.x0
       /\ a.top <= b.bottom /\ b.top <= a.bottom
    \/ /\ a.bottom = b.top \/ b.bottom = a.top
       /\ a.x0 <= b.x1 /\ b.x0 <= a.x1

\* C7: the overlap test is symmetric in its two rectangles, false for
\* disjoint rectangles and false for rectangles that only touch along an edge.
C7_OverlapOpenIntervals ==
    pc = "returned" =>
        \A a \in CallRectangles, b \in CallRectangles :
            /\ Overlaps(a, b) <=> Overlaps(b, a)
            /\ DisjointRectangles(a, b) => ~Overlaps(a, b)
            /\ TouchingRectangles(a, b) => ~Overlaps(a, b)

\* a return where the page holds a word against an edge of the target, whose
\* block is not in the result, a word apart from the target and a word over it
C7_Witness ==
    /\ pc = "returned"
    /\ \E i \in PageWords :
          /\ TouchingRectangles(WordBox(ocr_data[i]), target_bbox)
          /\ ocr_data[i].block_num \notin block_nums
    /\ \E i \in PageWords : DisjointRectangles(WordBox(ocr_data[i]), target_bbox)
    /\ OverlappingWords # {}

\* the page's records below the target
WordsBelow == {i \in PageWords : ocr_data[i].top > target_bbox.bottom}

\* C8: get_figure_block_nums looks only at the first record of the page, in
\* native order, whose top is strictly greater than the target's bottom: the
\* result is that record's block when its text holds "Figure" and empty
\* otherwise, also when no record lies below; it never has two blocks.
C8_FirstWordBelow ==
    pc = "returned" =>
        /\ WordsBelow = {} => block_nums = {}
        /\ WordsBelow # {} =>
              LET first == CHOOSE i \in WordsBelow : \A j \in WordsBelow : i <= j
              IN  block_nums = IF Contains(ocr_data[first].text, FigureToken)
                               THEN {ocr_data[first].block_num} ELSE {}
        /\ Cardinality(block_nums) <= 1

\* a return with an empty result although a later record below the target
\* holds "Figure", the first record below it being preceded by a record that
\* holds "Figure" and is not below
C8_Witness ==
    /\ pc = "returned"
    /\ block_nums = {}
    /\ \E i \in WordsBelow, j \in WordsBelow :
          /\ i < j
          /\ ~Contains(ocr_data[i].text, FigureToken)
          /\ Contains(ocr_data[j].text, FigureToken)
    /\ \E i \in PageWords \ WordsBelow : Contains(ocr_data[i].text, FigureToken)

-----------------------------------------------------------------------------
(* pdf_processor.find_block_num *)

\* float('inf')
Infinity == -3

\* str.lower(), character by character
LowerChar(c) == IF c = "A" THEN "a" ELSE IF c = "B" THEN "b" ELSE c
Lower(str) == [i \in 1..Len(str) |-> LowerChar(str[i])]

\* ' '.join(texts)
RECURSIVE Join(_)
Join(texts) ==
    IF texts = <<>> THEN <<>>
    ELSE IF Len(texts) = 1 THEN texts[1]
         ELSE texts[1] \o <<" ">> \o Join(Tail(texts))

Min3(a, b, c) == IF a <= b /\ a <= c THEN a ELSE IF b <= c THEN b ELSE c

\* Levenshtein.distance: insertions, deletions and substitutions cost 1 each
RECURSIVE Levenshtein(_, _)
Levenshtein(a, b) ==
    IF a = <<>> THEN Len(b)
    ELSE IF b = <<>> THEN Len(a)
    ELSE IF Head(a) = Head(b) THEN Levenshtein(Tail(a), Tail(b))
    ELSE 1 + Min3(Levenshtein(Tail(a), b), Levenshtein(a, Tail(b)),
                  Levenshtein(Tail(a), Tail(b)))

\* groupby(['block_num', 'page_num']) sorts the group keys ascending
KeyBefore(a, b) == a[1] < b[1] \/ (a[1] = b[1] /\ a[2] < b[2])

RECURSIVE SortedKeys(_)
SortedKeys(S) ==
    IF S = {} THEN <<>>
    ELSE LET m == CHOOSE k \in S : \A j \in S \ {k} : KeyBefore(k, j)
         IN  <<m>> \o SortedKeys(S \ {m})

\* a group's words joined in row order
GroupText(df, k) ==
    LET rows == SelectSeq(df, LAMBDA r : Key(r) = k)
    IN  Join([i \in 1..Len(rows) |-> rows[i].text])

\* df.groupby([...])['text'].apply(' '.join).reset_index()
Grouped(df) ==
    LET ks == SortedKeys({Key(df[i]) : i \in 1..Len(df)})
    IN  [i \in 1..Len(ks) |->
            [block_num |-> ks[i][1], page_num |-> ks[i][2],
             text |-> GroupText(df, ks[i])]]

\* the loop of find_block_num taking a group that is as near as the best so far
RECURSIVE FindLoopLast(_, _, _, _)
FindLoopLast(grouped, i, str, best) ==
    IF i > Len(grouped) THEN best
    ELSE LET distance == Levenshtein(str, Lower(grouped[i].text))
         IN  IF best.lowest_distance = Infinity
                \/ distance <= best.lowest_distance
             THEN FindLoopLast(grouped, i + 1, str,
                               [block_num |-> grouped[i].block_num,
                                page_num |-> grouped[i].page_num,
                                lowest_distance |-> distance])
             ELSE FindLoopLast(grouped, i + 1, str, best)

\* the loop of find_block_num: a strictly smaller distance replaces the best
RECURSIVE FindLoop(_, _, _, _)
FindLoop(grouped, i, str, best) ==
    IF i > Len(grouped) THEN best
    ELSE LET distance == Levenshtein(str, Lower(grouped[i].text))
         IN  IF best.lowest_distance = Infinity
                \/ distance < best.lowest_distance
             THEN FindLoop(grouped, i + 1, str,
                           [block_num |-> grouped[i].block_num,
                            page_num |-> grouped[i].page_num,
                            lowest_distance |-> distance])
             ELSE FindLoop(grouped, i + 1, str, best)

find_block_num ==
    /\ pc = "call"
    /\ IF ocr_data = <<>>
       THEN pc' = "raised" /\ found' = found
       ELSE LET best == FindLoop(Grouped(ocr_data), 1, Lower(chars),
                                 [block_num |-> None, page_num |-> None,
                                  lowest_distance |-> Infinity])
            IN  /\ found' = <<best.block_num, best.page_num>>
                /\ pc' = "returned"
    /\ UNCHANGED <<ocr_data, chars, segVars, boxVars, sections,
                 mapVars, annVars>>

\* Inputs: one-letter words, and texts of letters and spaces
FindWords ==
    {[page_num |-> p, block_num |-> b, left |-> 0, top |-> 0, width |-> 1,
      height |-> 1, text |-> t] :
        p \in Pages, b \in {0, 1}, t \in {<<"A">>, <<"b">>}}

InitFind ==
    /\ pc = "call"
    /\ \E n \in 0..MaxRecords :
          ocr_data \in {o \in [1..n -> FindWords] : EmissionOrder(o)}
    /\ chars \in SeqsUpTo({"a", "B", " "}, MaxChars)
    /\ found = <<>>
    /\ SegIdle
    /\ BoxIdle
    /\ IndexIdle
    /\ MapIdle
    /\ AnnIdle

SpecFind == InitFind /\ [][find_block_num]_vars

-----------------------------------------------------------------------------
(* Claims about find_block_num *)

GroupKeys == {Key(r) : r \in Range(ocr_data)}
\* the edit distance between the lower-cased text and a group's lower-cased words
GroupDistance(k) == Levenshtein(Lower(chars), Lower(GroupText(ocr_data, k)))

\* C9: for a non-empty record table find_block_num returns a group at the
\* least edit distance from the lower-cased text, the first such group in
\* ascending (block_num, page_num) order; when a group's text equals the text
\* it returns a group at distance 0.
C9_BestBlockFirstMinimum ==
    (pc = "returned" /\ ocr_data # <<>>) =>
        /\ found \in GroupKeys
        /\ \A k \in GroupKeys : GroupDistance(found) <= GroupDistance(k)
        /\ \A k \in GroupKeys :
              GroupDistance(k) = GroupDistance(found)
                  => (k = found \/ KeyBefore(found, k))
        /\ (\E k \in GroupKeys : Lower(GroupText(ocr_data, k)) = Lower(chars))
              => GroupDistance(found) = 0

\* a return where two groups equal the text up to case, the one emitted first
\* having the greater block_num, so that the key order decides
C9_Witness ==
    /\ pc = "returned"
    /\ GroupDistance(found) = 0
    /\ chars # Lower(chars)
    /\ \E i \in 1..Len(ocr_data), j \in 1..Len(ocr_data) :
          /\ i < j
          /\ Key(ocr_data[j]) = found
          /\ Key(ocr_data[i]) # found
          /\ GroupDistance(Key(ocr_data[i])) = 0

-----------------------------------------------------------------------------
(* utils.get_index *)

Digits == <<"0", "1", "2", "3", "4", "5", "6", "7", "8", "9">>
IsDigit(c) == \E d \in 1..10 : Digits[d] = c
\* int(c) of a one-character string holding a digit
DigitValue(c) == (CHOOSE d \in 1..10 : Digits[d] = c) - 1

\* str(n)
RECURSIVE Str(_)
Str(n) == IF n < 10 THEN <<Digits[n + 1]>>
          ELSE Str(n \div 10) \o <<Digits[(n % 10) + 1]>>

\* the three ways get_index builds an index from the previous one; int() of
\* a character that is no digit raises ValueError
LevelOneIndex(index_pre) ==
    IF IsDigit(index_pre[1])
    THEN [raised |-> FALSE, index |-> Str(DigitValue(index_pre[1]) + 1)]
    ELSE [raised |-> TRUE, index |-> <<>>]

DeeperIndex(index_pre) == [raised |-> FALSE, index |-> index_pre \o <<".", "1">>]

SiblingIndex(index_pre) ==
    IF IsDigit(index_pre[Len(index_pre)])
    THEN [raised |-> FALSE,
          index |-> SubSeq(index_pre, 1, Len(index_pre) - 2) \o <<".">>
                    \o Str(DigitValue(index_pre[Len(index_pre)]) + 1)]
    ELSE [raised |-> TRUE, index |-> <<>>]

\* the loop of get_index over the entries id, id + 1, ... (from 1 here); an
\* entry is a list [level, label, page] and the index is appended to it in
\* place; unpacking a previous entry that has not four elements raises
RECURSIVE IndexLoop(_, _)
IndexLoop(secs, id) ==
    IF id > Len(secs) THEN [raised |-> FALSE, sections |-> secs]
    ELSE LET e == secs[id]
         IN  IF id = 1
             THEN IndexLoop([secs EXCEPT ![id] = Append(e, <<"1">>)], id + 1)
             ELSE IF Len(secs[id - 1]) # 4
             THEN [raised |-> TRUE, sections |-> secs]
             ELSE LET level_pre == secs[id - 1][1]
                      index_pre == secs[id - 1][4]
                      new == IF e[1] = 1 THEN LevelOneIndex(index_pre)
                             ELSE IF level_pre < e[1] THEN DeeperIndex(index_pre)
                             ELSE SiblingIndex(index_pre)
                  IN  IF new.raised THEN [raised |-> TRUE, sections |-> secs]
                      ELSE IndexLoop([secs EXCEPT ![id] = Append(e, new.index)],
                                     id + 1)

get_index ==
    /\ pc = "call"
    /\ LET r == IndexLoop(sections, 1)
       IN  /\ sections' = r.sections
           /\ pc' = IF r.raised THEN "raised" ELSE "returned"
    /\ UNCHANGED <<ocr_data, segVars, boxVars, findVars,
                 mapVars, annVars>>

\* Inputs: the level sequences of n entries with j places where the level
\* differs from the one before
RECURSIVE LevelSeqs(_, _)
LevelSeqs(n, j) ==
    IF n = 1 THEN IF j = 0 THEN {<<l>> : l \in 1..MaxLevel} ELSE {}
    ELSE {Append(ls, ls[n - 1]) : ls \in LevelSeqs(n - 1, j)}
         \cup (IF j = 0 THEN {}
               ELSE UNION {{Append(ls, l) : l \in (1..MaxLevel) \ {ls[n - 1]}} :
                              ls \in LevelSeqs(n - 1, j - 1)})

\* an outline as get_toc(simple=True) gives it: [level, label, page] entries
Outline(ls) == [i \in 1..Len(ls) |-> <<ls[i], "Section", 1>>]

InitIndex ==
    /\ pc = "call"
    /\ \E n \in 1..MaxOutline, j \in 0..MaxChanges :
          sections \in {Outline(ls) : ls \in LevelSeqs(n, j)}
    /\ ocr_data = <<>>
    /\ SegIdle
    /\ BoxIdle
    /\ FindIdle
    /\ MapIdle
    /\ AnnIdle

SpecIndex == InitIndex /\ [][get_index]_vars

-----------------------------------------------------------------------------
(* Claims about get_index *)

RECURSIVE ParseNumber(_)
ParseNumber(ds) ==
    IF ds = <<>> THEN 0
    ELSE ParseNumber(SubSeq(ds, 1, Len(ds) - 1)) * 10 + DigitValue(ds[Len(ds)])

\* the characters of a dotted index before its first dot
FirstComponent(index) ==
    LET dots == {i \in 1..Len(index) : index[i] = "."}
    IN  IF dots = {} THEN index
        ELSE SubSeq(index, 1, (CHOOSE i \in dots : \A k \in dots : i <= k) - 1)

\* C10: every entry after the first whose level is 1 gets the first dotted
\* component of the previous entry's index, read as a number, plus one, and
\* nothing more; n level-1 entries in a row are numbered 1, 2, ..., n.
C10_LevelOneNextNumber ==
    pc = "returned" =>
        \A id \in 2..Len(sections) :
            sections[id][1] = 1 =>
                sections[id][4]
                    = Str(ParseNumber(FirstComponent(sections[id - 1][4])) + 1)


\* the position of the last dot of a dotted index, 0 when it has none
LastDot(index) ==
    LET dots == {i \in 1..Len(index) : index[i] = "."}
    IN  IF dots = {} THEN 0 ELSE CHOOSE i \in dots : \A k \in dots : k <= i

\* a dotted index with its last component incremented as a number and the
\* components before it kept
IncrementLast(index) ==
    SubSeq(index, 1, LastDot(index))
        \o Str(ParseNumber(SubSeq(index, LastDot(index) + 1, Len(index))) + 1)

\* C11: every entry after the first whose level is greater than 1 and not
\* greater than the previous entry's level gets the previous entry's index
\* with its last dotted component incremented by one as a number and all
\* preceding components unchanged, whatever the previous index is (a single
\* component, a last component of two or more digits).
C11_SiblingLastIncremented ==
    pc = "returned" =>
        \A id \in 2..Len(sections) :
            (sections[id][1] > 1 /\ sections[id][1] <= sections[id - 1][1]) =>
                sections[id][4] = IncrementLast(sections[id - 1][4])


\* an outline that starts at level 1 and whose levels move by at most one
\* from an entry to the next
StepwiseOutline ==
    /\ sections[1][1] = 1
    /\ \A id \in 2..Len(sections) :
          /\ sections[id][1] <= sections[id - 1][1] + 1
          /\ sections[id][1] >= sections[id - 1][1] - 1

Components(index) == Cardinality({i \in 1..Len(index) : index[i] = "."}) + 1

\* the nearest entry before id that is one level shallower
Parent(id) ==
    LET shallower == {j \in 1..(id - 1) : sections[j][1] = sections[id][1] - 1}
    IN  CHOOSE j \in shallower : \A k \in shallower : k <= j

\* C15: in an outline that starts at level 1 and whose levels change by at
\* most one between neighbours, every entry gets an index of exactly as many
\* dotted components as its level, and the index without its last component
\* is the index of its parent, the nearest preceding entry one level
\* shallower; levels (1, 2, 3, 2) give "1", "1.1", "1.1.1", "1.2".
C15_IndexFollowsHierarchy ==
    (pc # "call" /\ StepwiseOutline) =>
        /\ pc = "returned"
        /\ \A id \in 1..Len(sections) :
              /\ Components(sections[id][4]) = sections[id][1]
              /\ sections[id][1] > 1 =>
                    SubSeq(sections[id][4], 1, LastDot(sections[id][4]) - 1)
                        = sections[Parent(id)][4]


-----------------------------------------------------------------------------
(* utils.get_index called again on the list it has returned *)

\* get_index returns the list it was given, with the index appended to every
\* entry in place; a caller that invokes it again passes that same list
get_index_again ==
    /\ pc = "returned"
    /\ LET r == IndexLoop(sections, 1)
       IN  /\ sections' = r.sections
           /\ pc' = IF r.raised THEN "raised again" ELSE "returned again"
    /\ UNCHANGED <<ocr_data, segVars, boxVars, findVars,
                 mapVars, annVars>>

NextIndexTwice == get_index \/ get_index_again

SpecIndexTwice == InitIndex /\ [][NextIndexTwice]_vars

\* the index of every entry of a returned outline: its last element
Indices(secs) == [id \in 1..Len(secs) |-> secs[id][Len(secs[id])]]

\* C17: get_index is repeatable: a call leaves the (level, label, page)
\* entries of the outline as they were, so a second invocation on the same
\* outline succeeds and returns the same indices as the first.
C17_SecondCallSameIndices ==
    [][pc = "returned" =>
          /\ pc' = "returned again"
          /\ Indices(sections') = Indices(sections)]_vars


-----------------------------------------------------------------------------
(* bbox.calculate_bbox called on its own *)

\* the function filters, aggregates and returns; it has no raise on a frame
calculate_bbox_call ==
    /\ pc = "call"
    /\ bbox' = calculate_bbox(ocr_data, req_block, req_page)
    /\ pc' = "returned"
    /\ UNCHANGED <<ocr_data, segVars, boxVars, findVars, sections, req_block,
                   req_page, pdf_page, crop, pixels, annVars>>

InitBBox ==
    /\ pc = "call"
    /\ \E n \in 0..MaxRecords :
          ocr_data \in {o \in [1..n -> BoxWords({<<"w">>})] : EmissionOrder(o)}
    /\ req_block \in Blocks
    /\ req_page \in Pages
    /\ bbox = <<>>
    /\ pdf_page = <<>>
    /\ crop = <<>>
    /\ pixels = <<>>
    /\ SegIdle
    /\ BoxIdle
    /\ FindIdle
    /\ IndexIdle
    /\ AnnIdle

SpecBBox == InitBBox /\ [][calculate_bbox_call]_vars

\* no OCR record has the key asked for
ClaimLookupMiss ==
    \A i \in 1..Len(ocr_data) : Key(ocr_data[i]) # <<req_block, req_page>>

\* C13: calculate_bbox fails with a lookup-miss signal when no OCR record has
\* the (block_num, page_num) key asked for, and never returns a rectangle
\* built from an empty aggregate.
C13_LookupMissSignalled ==
    pc # "call" =>
        /\ ClaimLookupMiss => pc = "raised"
        /\ pc = "returned" =>
              NaN \notin {bbox.x0, bbox.top, bbox.x1, bbox.bottom}


-----------------------------------------------------------------------------
(* bbox.extract_text_from_bbox and bbox.convert_bbox_to_pixels: the scaling *)

\* Python computes the scales and the coordinates as floats; a number is kept
\* here as the exact fraction <<numerator, denominator>> in lowest terms with
\* a positive denominator, so that w / 1654 and 1654 / w are not whole numbers
RECURSIVE Gcd(_, _)
Gcd(a, b) == IF b = 0 THEN a ELSE Gcd(b, a % b)

Abs(n) == IF n < 0 THEN 0 - n ELSE n

Fraction(n, d) ==
    LET g == Gcd(Abs(n), Abs(d))
        sign == IF d < 0 THEN 0 - 1 ELSE 1
    IN  <<sign * (n \div g), sign * (d \div g)>>

Whole(n) == <<n, 1>>

FMul(a, b) ==
    LET g1 == Gcd(Abs(a[1]), b[2])
        g2 == Gcd(Abs(b[1]), a[2])
        h1 == IF g1 = 0 THEN 1 ELSE g1
        h2 == IF g2 = 0 THEN 1 ELSE g2
    IN  Fraction((a[1] \div h1) * (b[1] \div h2), (a[2] \div h2) * (b[2] \div h1))

FSub(a, b) ==
    LET l == (a[2] \div Gcd(a[2], b[2])) * b[2]
    IN  Fraction(a[1] * (l \div a[2]) - b[1] * (l \div b[2]), l)

FAdd(a, b) == FSub(a, <<0 - b[1], b[2]>>)

FLe(a, b) == FSub(a, b)[1] <= 0

ocr_page_width == 1654
ocr_page_height == 2339
padding == 3

\* extract_text_from_bbox: the box handed to within_bbox, in points
ScaleToPoints(b, pg) ==
    LET width_scale  == Fraction(pg.width, ocr_page_width)
        height_scale == Fraction(pg.height, ocr_page_height)
    IN  [x0     |-> FSub(FMul(Whole(b.x0), width_scale), Whole(padding)),
         top    |-> FSub(FMul(Whole(b.top), height_scale), Whole(padding)),
         x1     |-> FAdd(FMul(Whole(b.x1), width_scale), Whole(padding)),
         bottom |-> FAdd(FMul(Whole(b.bottom), height_scale), Whole(padding))]

\* ScaleToPixels with the scales of extract_text_from_bbox
ScaleToPixelsSameScale(b, pg) ==
    LET width_scale  == Fraction(pg.width, ocr_page_width)
        height_scale == Fraction(pg.height, ocr_page_height)
    IN  [x0     |-> FMul(b.x0, width_scale),
         top    |-> FMul(b.top, height_scale),
         x1     |-> FMul(b.x1, width_scale),
         bottom |-> FMul(b.bottom, height_scale)]

\* convert_bbox_to_pixels: the box in OCR coordinates
ScaleToPixels(b, pg) ==
    LET width_scale  == Fraction(ocr_page_width, pg.width)
        height_scale == Fraction(ocr_page_height, pg.height)
    IN  [x0     |-> FMul(b.x0, width_scale),
         top    |-> FMul(b.top, height_scale),
         x1     |-> FMul(b.x1, width_scale),
         bottom |-> FMul(b.bottom, height_scale)]

extract_text_from_bbox ==
    /\ pc = "call"
    /\ crop' = ScaleToPoints(bbox, pdf_page)
    /\ pc' = "cropped"
    /\ UNCHANGED <<ocr_data, segVars, boxVars, findVars, sections, req_block,
                   req_page, bbox, pdf_page, pixels, annVars>>

convert_bbox_to_pixels ==
    /\ pc = "cropped"
    /\ pixels' = ScaleToPixels(crop, pdf_page)
    /\ pc' = "returned"
    /\ UNCHANGED <<ocr_data, segVars, boxVars, findVars, sections, req_block,
                   req_page, bbox, pdf_page, crop, annVars>>

\* Inputs: pixel boxes on a grid over the OCR canvas; pages of A4 and Letter
\* size in points, a page of the canvas' own size and one of half its width
PixelXs == {k * 500 : k \in 0..MaxGrid}
PixelYs == {k * 700 : k \in 0..MaxGrid}

PageSizes ==
    {[width |-> 595, height |-> 842], [width |-> 612, height |-> 792],
     [width |-> ocr_page_width, height |-> ocr_page_height],
     [width |-> 827, height |-> ocr_page_height]}

InitRoundTrip ==
    /\ pc = "call"
    /\ bbox \in {[x0 |-> a, top |-> t, x1 |-> c, bottom |-> d] :
                    a \in PixelXs, c \in PixelXs, t \in PixelYs, d \in PixelYs}
    /\ bbox.x0 <= bbox.x1
    /\ bbox.top <= bbox.bottom
    /\ pdf_page \in PageSizes
    /\ crop = <<>>
    /\ pixels = <<>>
    /\ req_block = 0
    /\ req_page = 0
    /\ ocr_data = <<>>
    /\ SegIdle
    /\ BoxIdle
    /\ FindIdle
    /\ IndexIdle
    /\ AnnIdle

NextRoundTrip == extract_text_from_bbox \/ convert_bbox_to_pixels

SpecRoundTrip == InitRoundTrip /\ [][NextRoundTrip]_vars


\* how much wider and higher the box mapped there and back is than the box
ClaimWidthGrowth ==
    FSub(FSub(pixels.x1, pixels.x0), Whole(bbox.x1 - bbox.x0))
ClaimHeightGrowth ==
    FSub(FSub(pixels.bottom, pixels.top), Whole(bbox.bottom - bbox.top))

ClaimContainsBox ==
    /\ FLe(pixels.x0, Whole(bbox.x0))
    /\ FLe(pixels.top, Whole(bbox.top))
    /\ FLe(Whole(bbox.x1), pixels.x1)
    /\ FLe(Whole(bbox.bottom), pixels.bottom)

\* the padding, given in points, in pixels of each axis
ClaimPaddingX == FMul(Whole(padding), Fraction(ocr_page_width, pdf_page.width))
ClaimPaddingY == FMul(Whole(padding), Fraction(ocr_page_height, pdf_page.height))

\* C12 as stated: mapping a pixel box to points as extract_text_from_bbox does
\* and back as convert_bbox_to_pixels does gives a box that contains it and
\* whose extent exceeds the box's by exactly 2 x padding on each axis.
C12_RoundTripWithinPadding ==
    pc = "returned" =>
        /\ ClaimContainsBox
        /\ ClaimWidthGrowth = Whole(2 * padding)
        /\ ClaimHeightGrowth = Whole(2 * padding)

\* C12 amended: the box mapped there and back contains the box, each side
\* moved outward by the padding converted to pixels (padding x 1654 / W on
\* the horizontal axis, padding x 2339 / H on the vertical), so that the
\* extent grows by twice that on each axis.
C12_RoundTripPaddingScaled ==
    pc = "returned" =>
        /\ ClaimContainsBox
        /\ pixels.x0 = FSub(Whole(bbox.x0), ClaimPaddingX)
        /\ pixels.x1 = FAdd(Whole(bbox.x1), ClaimPaddingX)
        /\ pixels.top = FSub(Whole(bbox.top), ClaimPaddingY)
        /\ pixels.bottom = FAdd(Whole(bbox.bottom), ClaimPaddingY)
        /\ ClaimWidthGrowth = FMul(Whole(2), ClaimPaddingX)
        /\ ClaimHeightGrowth = FMul(Whole(2), ClaimPaddingY)

\* a round trip on an A4 page of a box away from the canvas' origin, after
\* which the box has grown by more than 2 x padding pixels on both axes
C12_Witness ==
    /\ pc = "returned"
    /\ pdf_page = [width |-> 595, height |-> 842]
    /\ bbox.x0 > 0
    /\ bbox.top > 0
    /\ bbox.x0 < bbox.x1
    /\ bbox.top < bbox.bottom
    /\ ~FLe(ClaimWidthGrowth, Whole(2 * padding))
    /\ ~FLe(ClaimHeightGrowth, Whole(2 * padding))


-----------------------------------------------------------------------------
(* pdf_annotation.annotate_pdf and utils.find_label *)

\* remove_special_characters: the characters \x00-\x09 and \x0B-\x1F are
\* dropped; of those the texts here hold the tab
SpecialChars == {"\t"}
remove_special_characters(text) ==
    SelectSeq(text, LAMBDA c : c \notin SpecialChars)

\* str.find: the lowest 0-based place where sub starts in text, or -1
StrFind(text, sub) ==
    LET starts == {k \in 0..(Len(text) - Len(sub)) :
                      SubSeq(text, k + 1, k + Len(sub)) = sub}
    IN  IF starts = {} THEN 0 - 1
        ELSE CHOOSE k \in starts : \A j \in starts : k <= j

\* find_label: the label cleaned, then (start, end) with start from str.find
find_label(text, label) ==
    LET cleaned == remove_special_characters(label)
        start   == StrFind(text, cleaned)
    IN  [start |-> start, end |-> start + Len(cleaned)]

\* the loop of annotate_pdf over the rows i, i + 1, ...; a Table or Figure
\* annotation carries no offsets; the text of any other row is what
\* extract_text_from_bbox returns for the box calculate_bbox gives for the
\* row, cleaned; the row is skipped when an offset is None; a Section takes
\* over the row's level, label and index
RECURSIVE AnnotateLoop(_, _, _, _, _)
AnnotateLoop(rows, texts, text, i, acc) ==
    IF i > Len(rows) THEN acc
    ELSE IF rows[i].Type \in {"Table", "Figure"}
    THEN AnnotateLoop(rows, texts, text, i + 1,
             Append(acc, [Type |-> rows[i].Type, begin |-> None, end |-> None,
                          level_label_index |-> <<>>]))
    ELSE LET extracted_text == remove_special_characters(texts[i])
             offsets == find_label(text, extracted_text)
         IN  IF offsets.start = None \/ offsets.end = None
             THEN AnnotateLoop(rows, texts, text, i + 1, acc)
             ELSE AnnotateLoop(rows, texts, text, i + 1,
                      Append(acc, [Type |-> rows[i].Type,
                                   begin |-> offsets.start, end |-> offsets.end,
                                   level_label_index |->
                                       rows[i].level_label_index]))

annotate_pdf ==
    /\ pc = "call"
    /\ annotations' = AnnotateLoop(processed_data, extracted, pdf_text, 1, <<>>)
    /\ pc' = "returned"
    /\ UNCHANGED <<ocr_data, segVars, boxVars, findVars, sections, mapVars,
                   processed_data, pdf_text, extracted>>

\* Inputs: rows of a segmentation, one after the other on page 1; the text
\* of the PDF; for every row the text pdfplumber finds inside the row's box
AnnotateRows(n) ==
    {rows \in [1..n -> SegmentRows \cup
                         {[Type |-> "Table", block_num |-> b, page_num |-> 1,
                           level_label_index |-> <<>>] : b \in Blocks}] :
        \A k \in 1..n : rows[k].block_num = k - 1 /\ rows[k].page_num = 1}

TextChars == {"a", "b"}

CroppedTexts ==
    {<<"a">>, <<"a", "b">>, <<"\t", "b">>, <<"b", "b">>, <<"c">>}

\* one word record for every row, so that each row's block exists
AnnotateWords(rows) ==
    [k \in 1..Len(rows) |->
        [page_num |-> rows[k].page_num, block_num |-> rows[k].block_num,
         left |-> 0, top |-> rows[k].block_num, width |-> 1, height |-> 1,
         text |-> <<"w">>]]

InitAnnotate ==
    /\ pc = "call"
    /\ \E n \in 1..MaxSegments :
          /\ processed_data \in AnnotateRows(n)
          /\ extracted \in [1..n -> CroppedTexts]
    /\ ocr_data = AnnotateWords(processed_data)
    /\ pdf_text \in SeqsUpTo(TextChars, MaxText)
    /\ annotations = <<>>
    /\ SegIdle
    /\ BoxIdle
    /\ FindIdle
    /\ IndexIdle
    /\ MapIdle

SpecAnnotate == InitAnnotate /\ [][annotate_pdf]_vars


\* the rows whose extracted text, cleaned, occurs nowhere in the PDF text
ClaimOccurs(text, sub) ==
    \E k \in 0..(Len(text) - Len(sub)) : SubSeq(text, k + 1, k + Len(sub)) = sub

ClaimUnmatched ==
    {k \in 1..Len(processed_data) :
        /\ processed_data[k].Type \notin {"Table", "Figure"}
        /\ ~ClaimOccurs(pdf_text,
                        SelectSeq(extracted[k], LAMBDA c : c # "\t"))}

\* C14: a row that is neither Table nor Figure and whose extracted text is
\* not found in the PDF text is skipped: no annotation is added for it, no
\* annotation has a negative begin offset, and every other row is annotated.
C14_UnmatchedSegmentSkipped ==
    pc = "returned" =>
        /\ Len(annotations) = Len(processed_data) - Cardinality(ClaimUnmatched)
        /\ \A k \in 1..Len(annotations) :
              annotations[k].begin = None \/ annotations[k].begin >= 0
        /\ [k \in 1..Len(annotations) |-> annotations[k].Type]
              = [k \in 1..Len(annotations) |->
                    SelectSeq([j \in 1..Len(processed_data) |->
                                  IF j \in ClaimUnmatched THEN "skipped"
                                  ELSE processed_data[j].Type],
                              LAMBDA t : t # "skipped")[k]]

=============================================================================
